---- MODULE Spec2Model ----
(***************************************************************************)
(* Vote ledger, comments, counter reconciliation, listings and the        *)
(* operations that touch them in the cyber-confession backend (Express     *)
(* routes over Mongoose models).  Every await of a castVote is a step of   *)
(* its own, so that requests interleave exactly where the event loop lets  *)
(* them; comment operations and listing queries run one at a time.         *)
(***************************************************************************)
EXTENDS Integers, FiniteSets, Sequences, TLC

\* ------------------------------------------------------------------ bounds
\* instants of the clock; castVote requests of a serial run; of a racing run
MaxTime == 2
MaxCasts == 3
MaxRacing == 2
\* Comment documents ever created
MaxComments == 3
\* votes, comments and views of the confession whose hotScore is computed;
\* its age in hours
MaxCount == 2
MaxAge == 3

\* a comment's likes and dislikes stay within -MaxLikes..MaxLikes
MaxLikes == 5

\* detail reads and shares a behaviour makes
MaxVisits == 2

\* requests to the admin routes a behaviour makes
MaxAdminOps == 3

\* hours the login clock runs
MaxHours == 4

\* time unit of the model: 30 days (Confession.js pre('save') default expiry)
ExpiryPeriods == 1

Users == {"u1", "u2"}
Reqs == {"r1", "r2"}
ConfIds == {1}
VoteTypes == {"heaven", "hell"}
BodyTypes == VoteTypes \cup {"purgatory"}
ConfStatus == {"pending", "approved", "rejected", "hidden"}
ModerateStatus == {"approved", "rejected", "hidden"}
UserStatus == {"active", "suspended", "banned"}
BatchStatus == {"approved", "rejected", "hidden"}
BatchActions == {"delete", "approve", "reject", "hide"}

VARIABLES now, users, confs, nextConf, votes, casts, req, lastOk,
          comments, nextComment, last, docs, listed, hot, routed, liked, visits, served,
          adminLog, login, front

vars == <<now, users, confs, nextConf, votes, casts, req, lastOk,
          comments, nextComment, last, docs, listed, hot, routed, liked, visits, served,
          adminLog, login, front>>

\* the Comment collection with its id counter and the last model call (ghost)
comVars == <<comments, nextComment, last>>

\* the collection a listing query runs on, and what it returned
listVars == <<docs, listed>>

\* what the other parts of the program keep: the inputs and the value of a
\* confession's hotScore; the last request a router dispatched; the likes and
\* dislikes of a comment; the detail reads and shares in flight and how many
\* were answered with success (ghost); the last request of the admin routes
\* that changes users (ghost); an account's login state; the front-end store
auxVars == <<hot, routed, liked, visits, served, adminLog, login, front>>

\* the variables of the user administration, of the login and of the front end
sideVars == <<adminLog, login, front>>

\* ------------------------------------------------------------ store helpers
NoConf == [live |-> FALSE, status |-> "approved", heaven |-> 0, hell |-> 0,
           commentsCount |-> 0, viewsCount |-> 0, sharesCount |-> 0, expiresAt |-> -1,
           author |-> "none"]

NoUser == [live |-> FALSE, status |-> "active", votesCount |-> 0]

IdleReq == [pc |-> "idle", user |-> "none", conf |-> 0, type |-> "none",
            had |-> "none", branch |-> "none", existing |-> {}, docH |-> -1, docL |-> -1,
            cntH |-> -1, cntL |-> -1, status |-> 0, error |-> "none",
            action |-> "none", rtype |-> "none", wrote |-> "none", logged |-> FALSE]

NoCast == [type |-> "none", action |-> "none"]

\* ghost: the last call made on the Comment model or on a reconciliation
\* method, how many times in a row it was made (1 or 2), and whether its
\* first run changed a counter
NoLast == [op |-> "none", id |-> 0, runs |-> 0, changed |-> FALSE]

NoListing == [op |-> "none", sort |-> "none", category |-> "none", tags |-> {},
              at |-> 0, result |-> {}]

\* a confession just created: no vote, no comment, no view, age 0
NoHot == [votes |-> 0, comments |-> 0, views |-> 0, age |-> 0, score |-> 0]

NoRoute == [router |-> "none", method |-> "none", path |-> <<>>, handler |-> "none"]

\* commentSchema: likes and dislikes default to 0
NoLikes == [likes |-> 0, dislikes |-> 0]

Visitors == {"d1", "d2"}

NoVisit == [pc |-> "idle", kind |-> "none", conf |-> 0, at |-> 0, docViews |-> -1,
            docShares |-> -1, status |-> 0]

NoneServed == [started |-> 0, reads |-> 0, shares |-> 0]

\* ghost: no request of the admin routes yet
NoAdminOp == [n |-> 0, by |-> "none", op |-> "none", code |-> 0]

\* the login state of the account u1 (loginAttempts default 0, lockUntil
\* default null, written -1), the clock in hours, and the login request in
\* flight: the identifier and password it sent, the document it loaded, its
\* response; ghost: the failed password attempts since the last success
NoLogin == [loginAttempts |-> 0, lockUntil |-> -1, hour |-> 0, pc |-> "idle", id |-> "none",
            password |-> "none", docAttempts |-> -1, docLockUntil |-> -1, status |-> 0,
            streak |-> 0]

FrontIds == {1, 2, 3}

\* the sample confessions 1 and 2 of a first visit; 3 is the id a submitted
\* confession gets, with no vote
initialVotes(i) ==
    CASE i = 1 -> [heavenVotes |-> 12, hellVotes |-> 3]
      [] i = 2 -> [heavenVotes |-> 5, hellVotes |-> 18]
      [] OTHER -> [heavenVotes |-> 0, hellVotes |-> 0]

\* a confession of the front-end store: userVote null is written "none";
\* ghost: the type of the last vote the store accepted
frontConfession(i, there) ==
    [present |-> there, heavenVotes |-> initialVotes(i).heavenVotes,
     hellVotes |-> initialVotes(i).hellVotes, userVote |-> "none", accepted |-> "none"]

\* the store of a first visit, no modal shown; ghost: the last call of vote
FirstVisit == [confessions |-> [i \in FrontIds |-> frontConfession(i, i # 3)],
               modal |-> "none", call |-> <<0, "none">>]

AuxInit ==
    /\ hot = NoHot /\ routed = NoRoute /\ liked = NoLikes
    /\ visits = [d \in Visitors |-> NoVisit] /\ served = NoneServed
    /\ adminLog = NoAdminOp /\ login = NoLogin /\ front = FirstVisit

\* virtual isExpired: expiresAt && expiresAt < new Date()
isExpiredNullPast(c, t) == c.expiresAt < t

isExpired(c, t) == c.expiresAt # -1 /\ c.expiresAt < t

\* Vote.countDocuments({confession, type})
countDocuments(vs, c, t) == Cardinality({v \in vs : v.confession = c /\ v.type = t})

\* Vote.find({user, confession})
votesOf(vs, u, c) == {v \in vs : v.user = u /\ v.confession = c}

\* unique index {user: 1, confession: 1}: would this insert raise E11000?
DuplicateKeyNoIndex(vs, u, c) == FALSE

DuplicateKey(vs, u, c) == votesOf(vs, u, c) # {}

\* a new ObjectId: one that no stored vote and no loaded vote document carries
usedIds == {v.id : v \in votes} \cup UNION {{e.id : e \in req[r].existing} : r \in Reqs}

freshId == CHOOSE i \in 1..(Cardinality(usedIds) + 1) :
              i \notin usedIds /\ \A j \in 1..(i - 1) : j \in usedIds

\* ghost: what the ledger holds for the pair when a call arrives
hadVote(vs, u, c) ==
    LET ts == {v.type : v \in votesOf(vs, u, c)}
    IN IF ts = {} THEN "none"
       ELSE IF Cardinality(ts) > 1 THEN "both"
       ELSE CHOOSE t \in ts : TRUE

\* the three checks after Confession.findById, in the handler's order
preconditionExpiryFirst(cf, t) ==
    IF ~cf.live THEN "notFound"
    ELSE IF isExpired(cf, t) THEN "gone"
    ELSE IF cf.status # "approved" THEN "forbidden"
    ELSE "ok"

precondition(cf, t) ==
    IF ~cf.live THEN "notFound"
    ELSE IF cf.status # "approved" THEN "forbidden"
    ELSE IF isExpired(cf, t) THEN "gone"
    ELSE "ok"

statusOf(kind) ==
    CASE kind = "notFound" -> 404
      [] kind = "forbidden" -> 403
      [] kind = "gone" -> 410
      [] OTHER -> 200

\* if (existingVote.type === type) deleteOne() else save()
branchOfAlwaysSave(v, t) == "save"

branchOf(v, t) == IF v.type = t THEN "delete" ELSE "save"

\* existingVote.type = type
retypeKeep(v, t) == v

retype(v, t) == [v EXCEPT !.type = t]

\* the document Vote.create builds
newVoteHeaven(i, u, c, t) == [id |-> i, user |-> u, confession |-> c, type |-> "heaven"]

newVote(i, u, c, t) == [id |-> i, user |-> u, confession |-> c, type |-> t]

InFlight(r) == req[r].pc \notin {"idle", "done"}

Quiescent == \A r \in Reqs : ~InFlight(r)

\* ---------------------------------------------------------------- initial
Init ==
    /\ now = 0
    /\ users = [u \in Users |-> [live |-> TRUE, status |-> "active", votesCount |-> 0]]
    /\ confs = [c \in ConfIds |-> NoConf]
    /\ nextConf = 1
    /\ votes = {}
    /\ casts = 0
    /\ req = [r \in Reqs |-> IdleReq]
    /\ lastOk = [u \in Users |-> [c \in ConfIds |-> NoCast]]
    /\ comments = {}
    /\ nextComment = 1
    /\ last = NoLast
    /\ docs = <<>>
    /\ listed = NoListing
    /\ AuxInit

\* ------------------------------------------------------- castVote: replies
\* res.status(code).json({success: false, error}) / errorHandler's response
Fail(rq, code, kind) ==
    [rq EXCEPT !.pc = "done", !.status = code, !.error = kind,
               !.type = "none", !.had = "none", !.branch = "none", !.existing = {}, !.docH = -1, !.docL = -1, !.cntH = -1, !.cntL = -1]

\* res.json({success: true, data: {action, type}})
Succeed(rq, act, ty) ==
    [rq EXCEPT !.pc = "done", !.status = 200, !.action = act, !.rtype = ty,
               !.type = "none", !.had = "none", !.branch = "none", !.existing = {}, !.docH = -1, !.docL = -1, !.cntH = -1, !.cntL = -1]

\* what follows the Vote post('save') / post('deleteOne') hook in the handler
AfterHook(rq) ==
    CASE rq.branch = "delete" -> Succeed(rq, "removed", "none")
      [] rq.branch = "save" -> Succeed(rq, "changed", rq.type)
      [] OTHER -> [rq EXCEPT !.pc = "incStats", !.docH = -1, !.docL = -1,
                             !.cntH = -1, !.cntL = -1]

\* ghost: the last successful cast of each (user, confession) pair
Remember(old, rq) ==
    IF rq.pc = "done" /\ rq.status = 200
    THEN [lastOk EXCEPT ![rq.user][rq.conf] = [type |-> old.type, action |-> rq.action]]
    ELSE lastOk

\* ------------------------------------------------------ castVote: the steps
\* POST /api/confessions/:id/vote arrives with a token of u and a body type t
CastVoteStart(r, u, c, t) ==
    /\ ~InFlight(r)
    /\ r = "r2" => InFlight("r1")
    /\ casts' = casts + 1
    /\ req' = [req EXCEPT ![r] = [IdleReq EXCEPT !.pc = "auth", !.user = u, !.conf = c,
                                    !.type = t, !.had = hadVote(votes, u, c)]]
    /\ UNCHANGED <<now, users, confs, nextConf, votes, lastOk>>
    /\ UNCHANGED <<comVars, listVars, auxVars>>

\* auth (User.findById, status), voteLimiter, voteValidation / validationResult
Authenticate(r, limited) ==
    /\ req[r].pc = "auth"
    /\ LET rq == req[r]
           u == users[rq.user]
       IN req' = [req EXCEPT ![r] =
            IF ~u.live THEN Fail(rq, 401, "auth")
            ELSE IF u.status # "active" THEN Fail(rq, 403, "disabled")
            ELSE IF limited THEN Fail(rq, 429, "rateLimit")
            ELSE IF rq.type \notin VoteTypes THEN Fail(rq, 400, "validation")
            ELSE [rq EXCEPT !.pc = "findConfession"]]
    /\ UNCHANGED <<now, users, confs, nextConf, votes, casts, lastOk>>
    /\ UNCHANGED <<comVars, listVars, auxVars>>

\* Confession.findById and the three precondition checks
FindConfessionCountingFirst(r) ==
    /\ req[r].pc = "findConfession"
    /\ LET rq == req[r]
           kind == precondition(confs[rq.conf], now)
       IN req' = [req EXCEPT ![r] =
            IF kind # "ok" THEN Fail(rq, statusOf(kind), kind)
            ELSE [rq EXCEPT !.pc = "findVote"]]
    /\ users' = [users EXCEPT ![req[r].user] =
                   IF @.live THEN [@ EXCEPT !.votesCount = @ + 1] ELSE @]
    /\ UNCHANGED <<now, confs, nextConf, votes, casts, lastOk>>
    /\ UNCHANGED <<comVars, listVars, auxVars>>

FindConfession(r) ==
    /\ req[r].pc = "findConfession"
    /\ LET rq == req[r]
           kind == precondition(confs[rq.conf], now)
       IN req' = [req EXCEPT ![r] =
            IF kind # "ok" THEN Fail(rq, statusOf(kind), kind)
            ELSE [rq EXCEPT !.pc = "findVote"]]
    /\ UNCHANGED <<now, users, confs, nextConf, votes, casts, lastOk>>
    /\ UNCHANGED <<comVars, listVars, auxVars>>

\* Vote.findOne({user, confession}) and the choice of the branch
FindVote(r) ==
    /\ req[r].pc = "findVote"
    /\ LET rq == req[r]
           found == votesOf(votes, rq.user, rq.conf)
       IN \/ /\ found = {}
             /\ req' = [req EXCEPT ![r] = [rq EXCEPT !.pc = "write", !.branch = "create"]]
          \/ \E v \in found :
                req' = [req EXCEPT ![r] = [rq EXCEPT !.pc = "write", !.existing = {v},
                          !.branch = branchOf(v, rq.type)]]
    /\ UNCHANGED <<now, users, confs, nextConf, votes, casts, lastOk>>
    /\ UNCHANGED <<comVars, listVars, auxVars>>

\* existingVote.deleteOne()
DeleteVote(r) ==
    /\ req[r].pc = "write" /\ req[r].branch = "delete"
    /\ votes' = {v \in votes : \A e \in req[r].existing : v.id # e.id}
    /\ req' = [req EXCEPT ![r] = [@ EXCEPT !.pc = "hookFind",
                  !.wrote = IF votes' # votes THEN "deleted" ELSE "none"]]
    /\ UNCHANGED <<now, users, confs, nextConf, casts, lastOk>>
    /\ UNCHANGED <<comVars, listVars, auxVars>>

\* existingVote.type = type; existingVote.save()
SaveVote(r) ==
    /\ req[r].pc = "write" /\ req[r].branch = "save"
    /\ LET rq == req[r]
           ids == {e.id : e \in rq.existing}
       IN IF \E v \in votes : v.id \in ids
          THEN /\ votes' = {IF v.id \in ids THEN retype(v, rq.type) ELSE v : v \in votes}
               /\ req' = [req EXCEPT ![r] = [rq EXCEPT !.pc = "hookFind",
                             !.wrote = IF votes' # votes THEN "changed" ELSE "none"]]
          ELSE /\ votes' = votes
               /\ req' = [req EXCEPT ![r] = Fail(rq, 500, "docNotFound")]
    /\ UNCHANGED <<now, users, confs, nextConf, casts, lastOk>>
    /\ UNCHANGED <<comVars, listVars, auxVars>>

\* Vote.create({user, confession, type, metadata})
CreateVote(r) ==
    /\ req[r].pc = "write" /\ req[r].branch = "create"
    /\ LET rq == req[r]
       IN IF DuplicateKey(votes, rq.user, rq.conf)
          THEN /\ votes' = votes
               /\ req' = [req EXCEPT ![r] = Fail(rq, 400, "duplicate")]
          ELSE /\ votes' = votes \cup {newVote(freshId, rq.user, rq.conf, rq.type)}
               /\ req' = [req EXCEPT ![r] = [rq EXCEPT !.pc = "hookFind", !.wrote = "created"]]
    /\ UNCHANGED <<now, users, confs, nextConf, casts, lastOk>>
    /\ UNCHANGED <<comVars, listVars, auxVars>>

\* --------------------------------------- Vote post hooks: counter reconciliation
\* voteSchema.post('save') / post('deleteOne'): Confession.findById(this.confession)
HookFind(r) ==
    /\ req[r].pc = "hookFind"
    /\ LET rq == req[r]
           cf == confs[rq.conf]
       IN req' = [req EXCEPT ![r] =
            IF cf.live
            THEN [rq EXCEPT !.pc = "count", !.docH = cf.heaven, !.docL = cf.hell]
            ELSE AfterHook(rq)]
    /\ lastOk' = Remember(req[r], req'[r])
    /\ UNCHANGED <<now, users, confs, nextConf, votes, casts>>
    /\ UNCHANGED <<comVars, listVars, auxVars>>

\* updateVoteCount: Vote.countDocuments({confession, type: 'heaven'})
CountHeaven(r) ==
    /\ req[r].pc = "count" /\ req[r].cntH = -1
    /\ req' = [req EXCEPT ![r] = [@ EXCEPT !.cntH = countDocuments(votes, req[r].conf, "heaven")]]
    /\ UNCHANGED <<now, users, confs, nextConf, votes, casts, lastOk>>
    /\ UNCHANGED <<comVars, listVars, auxVars>>

\* updateVoteCount: Vote.countDocuments({confession, type: 'hell'})
CountHell(r) ==
    /\ req[r].pc = "count" /\ req[r].cntL = -1
    /\ req' = [req EXCEPT ![r] = [@ EXCEPT !.cntL = countDocuments(votes, req[r].conf, "hell")]]
    /\ UNCHANGED <<now, users, confs, nextConf, votes, casts, lastOk>>
    /\ UNCHANGED <<comVars, listVars, auxVars>>

\* document.save(): $set of the paths whose value differs from the loaded one;
\* a document deleted meanwhile raises DocumentNotFoundError (caught by the hook)
saveVotesStale(cf, rq) == cf

saveVotes(cf, rq) ==
    IF ~cf.live THEN cf
    ELSE [cf EXCEPT !.heaven = IF rq.cntH # rq.docH THEN rq.cntH ELSE @,
                    !.hell = IF rq.cntL # rq.docL THEN rq.cntL ELSE @]

\* updateVoteCount: this.votes.heaven = ...; this.votes.hell = ...; this.save()
HookSave(r) ==
    /\ req[r].pc = "count" /\ req[r].cntH # -1 /\ req[r].cntL # -1
    /\ confs' = [confs EXCEPT ![req[r].conf] = saveVotes(@, req[r])]
    /\ req' = [req EXCEPT ![r] = AfterHook(@)]
    /\ lastOk' = Remember(req[r], req'[r])
    /\ UNCHANGED <<now, users, nextConf, votes, casts>>
    /\ UNCHANGED <<comVars, listVars, auxVars>>

\* User.findByIdAndUpdate(req.user.id, {$inc: {'stats.votesCount': 1}})
IncStats(r) ==
    /\ req[r].pc = "incStats"
    /\ users' = [users EXCEPT ![req[r].user] =
                   IF @.live THEN [@ EXCEPT !.votesCount = @ + 1] ELSE @]
    /\ req' = [req EXCEPT ![r] = Succeed(@, "added", @.type)]
    /\ lastOk' = Remember(req[r], req'[r])
    /\ UNCHANGED <<now, confs, nextConf, votes, casts>>
    /\ UNCHANGED <<comVars, listVars, auxVars>>

\* ------------------------------------------------- a store operation rejects
\* try { ... } catch (error) { console.error(...) } of the Vote post hooks: the
\* hook ends there and the handler goes on as after a hook that succeeded
caughtRethrown(rq) == [Fail(rq, 500, "server") EXCEPT !.logged = TRUE]

caught(rq) == [AfterHook(rq) EXCEPT !.logged = TRUE]

\* the awaited operation of r's current step rejects (the store is down or
\* times out): inside a post hook the hook's catch logs it; in the handler
\* asyncHandler passes it to errorHandler, which answers 500
StoreRejects(r) ==
    /\ req[r].pc \in {"findConfession", "findVote", "write", "hookFind", "count", "incStats"}
    /\ req' = [req EXCEPT ![r] =
                 IF @.pc \in {"hookFind", "count"} THEN caught(@)
                 ELSE Fail(@, 500, "server")]
    /\ lastOk' = Remember(req[r], req'[r])
    /\ UNCHANGED <<now, users, confs, nextConf, votes, casts>>
    /\ UNCHANGED <<comVars, listVars, auxVars>>

\* ------------------------------------------------------------- confessions
\* POST /api/confessions: Confession.create (status default 'approved',
\* pre('save') sets expiresAt = now + 30 days)
CreateConfession(u, anon) ==
    /\ users[u].live /\ users[u].status = "active"
    /\ nextConf \in ConfIds
    /\ confs' = [confs EXCEPT ![nextConf] =
                   [live |-> TRUE, status |-> "approved", heaven |-> 0, hell |-> 0,
                    commentsCount |-> 0, viewsCount |-> 0, sharesCount |-> 0,
                    expiresAt |-> now + ExpiryPeriods,
                    author |-> IF anon THEN "none" ELSE u]]
    /\ nextConf' = nextConf + 1
    /\ UNCHANGED <<now, users, votes, casts, req, lastOk>>
    /\ UNCHANGED <<comVars, listVars, auxVars>>

\* TTL index {expiresAt: 1}, expireAfterSeconds 0: the store drops the document
TTLExpire(c) ==
    /\ confs[c].live /\ isExpired(confs[c], now)
    /\ confs' = [confs EXCEPT ![c] = NoConf]
    /\ UNCHANGED <<now, users, nextConf, votes, casts, req, lastOk>>
    /\ UNCHANGED <<comVars, listVars, auxVars>>

\* ------------------------------------------------------------------- admin
\* PUT /api/admin/confessions/:id/moderate
Moderate(c, s) ==
    /\ confs[c].live
    /\ confs' = [confs EXCEPT ![c] = [@ EXCEPT !.status = s]]
    /\ UNCHANGED <<now, users, nextConf, votes, casts, req, lastOk>>
    /\ UNCHANGED <<comVars, listVars, auxVars>>

BatchStatusOf(a) ==
    CASE a = "approve" -> "approved"
      [] a = "reject" -> "rejected"
      [] OTHER -> "hidden"

\* POST /api/admin/batch, type 'confessions': Model.deleteMany / Model.updateMany
BatchConfessions(a, ids) ==
    /\ \E c \in ids : confs[c].live
    /\ confs' = [c \in ConfIds |->
                   IF c \in ids /\ confs[c].live
                   THEN IF a = "delete" THEN NoConf
                        ELSE [confs[c] EXCEPT !.status = BatchStatusOf(a)]
                   ELSE confs[c]]
    /\ UNCHANGED <<now, users, nextConf, votes, casts, req, lastOk>>
    /\ UNCHANGED <<comVars, listVars, auxVars>>

\* ------------------------------------------------------ DELETE /api/auth/account
\* auth, password check, then Promise.all([Confession.deleteMany({author}),
\* Vote.deleteMany({user}), Comment.deleteMany({author}), User.findByIdAndDelete]):
\* the deletes are issued together and awaited as one
DeleteAccount(u) ==
    /\ users[u].live /\ users[u].status = "active"
    /\ confs' = [c \in ConfIds |->
                   IF confs[c].live /\ confs[c].author = u THEN NoConf ELSE confs[c]]
    /\ votes' = {v \in votes : v.user # u}
    /\ users' = [users EXCEPT ![u] = NoUser]
    /\ comments' = {k \in comments : k.author # u}
    /\ UNCHANGED <<now, nextConf, casts, req, lastOk, nextComment, last, listVars, auxVars>>

\* time passes
Tick ==
    /\ now < MaxTime
    /\ now' = now + 1
    /\ UNCHANGED <<users, confs, nextConf, votes, casts, req, lastOk>>
    /\ UNCHANGED <<comVars, listVars, auxVars>>

\* ---------------------------------------------------------------- comments
CommentStatus == {"pending", "approved", "rejected", "hidden"}

\* Comment.countDocuments({confession, status: 'approved'})
countComments(ks, c) ==
    Cardinality({k \in ks : k.confession = c /\ k.status = "approved"})

\* Comment.countDocuments({parentComment, status: 'approved'})
countReplies(ks, p) ==
    Cardinality({k \in ks : k.parentComment = p /\ k.status = "approved"})

\* confession.updateCommentCount(): this.commentsCount = count; this.save()
updateCommentCountAdding(cf, ks, c) ==
    [cf EXCEPT !.commentsCount = (@ + countComments(ks, c)) % (MaxComments + 1)]

updateCommentCount(cf, ks, c) == [cf EXCEPT !.commentsCount = countComments(ks, c)]

\* Comment.updateRepliesCount(commentId): updateOne({_id}, {$set: {repliesCount}})
updateRepliesCount(ks, p) ==
    {IF k.id = p THEN [k EXCEPT !.repliesCount = countReplies(ks, p)] ELSE k : k \in ks}

\* confession.updateVoteCount() run on its own: both counts, then save
updateVoteCount(cf, vs, c) ==
    saveVotes(cf, [docH |-> cf.heaven, docL |-> cf.hell,
                   cntH |-> countDocuments(vs, c, "heaven"),
                   cntL |-> countDocuments(vs, c, "hell")])

\* the hooks' first part: Confession.findById(this.confession), and
\* updateCommentCount() if it is found
recountConfession(cfs, ks, c) ==
    [d \in ConfIds |-> IF d = c /\ cfs[d].live THEN updateCommentCount(cfs[d], ks, d)
                       ELSE cfs[d]]

\* the hooks' second part: if (this.parentComment) updateRepliesCount(parent)
recountParent(ks, k) ==
    IF k.parentComment # 0 THEN updateRepliesCount(ks, k.parentComment) ELSE ks

\* this.isNew as the post('save') hook of a freshly inserted document reads
\* it: Mongoose clears the flag when it issues the insert, before any post
\* hook runs
isNewInPostSave == FALSE

\* the new document: parentComment 0 stands for null, repliesCount defaults to 0
newComment(i, c, p, u, s) ==
    [id |-> i, confession |-> c, parentComment |-> p, status |-> s, author |-> u,
     repliesCount |-> 0]

commentById(i) == CHOOSE k \in comments : k.id = i

\* ghost: a reconciliation method ran (for the second time in a row, or anew)
Did(op, i, ch) ==
    IF last.op = op /\ last.id = i
    THEN [last EXCEPT !.runs = 2]
    ELSE [op |-> op, id |-> i, runs |-> 1, changed |-> ch]

\* ghost: a call on the Comment model was made
Called(op, i) == [op |-> op, id |-> i, runs |-> 1, changed |-> FALSE]

\* a new Comment is saved (Comment.create / new Comment(...).save()), then
\* post('save'): if (this.isNew && this.status === 'approved') recount
SaveComment(c, p, u, s) ==
    /\ nextComment <= MaxComments
    /\ confs[c].live /\ users[u].live
    /\ p = 0 \/ \E k \in comments : k.id = p /\ k.confession = c
    /\ LET k == newComment(nextComment, c, p, u, s)
           ks == comments \cup {k}
           hook == isNewInPostSave /\ s = "approved"
       IN /\ confs' = IF hook THEN recountConfession(confs, ks, c) ELSE confs
          /\ comments' = IF hook THEN recountParent(ks, k) ELSE ks
    /\ nextComment' = nextComment + 1
    /\ last' = Called("saveComment", nextComment)
    /\ UNCHANGED <<now, users, nextConf, votes, casts, req, lastOk, listVars, auxVars>>

\* comment.deleteOne() on a loaded document, then post('deleteOne'): recount
\* the confession, recount the parent, deleteMany({parentComment: this._id})
DeleteComment(i) ==
    /\ \E k \in comments : k.id = i
    /\ LET k == commentById(i)
           ks == comments \ {k}
       IN /\ confs' = recountConfession(confs, ks, k.confession)
          /\ comments' = {r \in recountParent(ks, k) : r.parentComment # i}
    /\ last' = Called("deleteComment", i)
    /\ UNCHANGED <<now, users, nextConf, votes, casts, req, lastOk, nextComment, listVars, auxVars>>

\* PUT /api/admin/comments/:id/moderate: comment.status = status;
\* comment.save(); post('save') sees a document that is not new
ModerateComment(i, s) ==
    /\ \E k \in comments : k.id = i
    /\ comments' = {IF k.id = i THEN [k EXCEPT !.status = s] ELSE k : k \in comments}
    /\ last' = Called("moderateComment", i)
    /\ UNCHANGED <<now, users, confs, nextConf, votes, casts, req, lastOk, nextComment,
                   listVars, auxVars>>

\* POST /api/admin/batch, type 'comments': Comment.deleteMany / Comment.updateMany
BatchComments(a, ids) ==
    /\ \E k \in comments : k.id \in ids
    /\ comments' = IF a = "delete" THEN {k \in comments : k.id \notin ids}
                   ELSE {IF k.id \in ids THEN [k EXCEPT !.status = BatchStatusOf(a)] ELSE k :
                            k \in comments}
    /\ last' = Called("batchComments", 0)
    /\ UNCHANGED <<now, users, confs, nextConf, votes, casts, req, lastOk, nextComment,
                   listVars, auxVars>>

\* confession.deleteOne() on a loaded document: pre('deleteOne') deletes the
\* votes and the comments of the confession, then the document goes
DeleteConfession(c) ==
    /\ confs[c].live
    /\ votes' = {v \in votes : v.confession # c}
    /\ comments' = {k \in comments : k.confession # c}
    /\ confs' = [confs EXCEPT ![c] = NoConf]
    /\ UNCHANGED <<now, users, nextConf, casts, req, lastOk, nextComment, last, listVars, auxVars>>

\* --------------------------------------- reconciliation methods, run on their own
UpdateVoteCount(c) ==
    /\ confs[c].live
    /\ confs' = [confs EXCEPT ![c] = updateVoteCount(@, votes, c)]
    /\ last' = Did("updateVoteCount", c, confs' # confs)
    /\ UNCHANGED <<now, users, nextConf, votes, casts, req, lastOk, comments, nextComment,
                   listVars, auxVars>>

UpdateCommentCount(c) ==
    /\ confs[c].live
    /\ confs' = [confs EXCEPT ![c] = updateCommentCount(@, comments, c)]
    /\ last' = Did("updateCommentCount", c, confs' # confs)
    /\ UNCHANGED <<now, users, nextConf, votes, casts, req, lastOk, comments, nextComment,
                   listVars, auxVars>>

UpdateRepliesCount(p) ==
    /\ comments' = updateRepliesCount(comments, p)
    /\ last' = Did("updateRepliesCount", p, comments' # comments)
    /\ UNCHANGED <<now, users, confs, nextConf, votes, casts, req, lastOk, nextComment,
                   listVars, auxVars>>

\* ---------------------------------------------------------------- listings
DocIds == {1, 2}
Categories == {"work", "other"}
Tags == {"a"}
Sorts == {"latest", "hot", "votes", "comments"}
Limits == {1, 2}

\* {status: 'approved', $or: [{expiresAt: null}, {expiresAt: {$gt: new Date()}}]}
eligibleAnyExpiry(d, t) == d.status = "approved"

eligible(d, t) == d.status = "approved" /\ (d.expiresAt = -1 \/ d.expiresAt > t)

\* query.category = category; query.tags = {$in: tagArray}, each only if given
filtered(d, cat, tgs) ==
    /\ cat # "none" => d.category = cat
    /\ tgs # {} => d.tags \cap tgs # {}

\* .sort({createdAt: -1}).limit(n) over documents whose other sort keys are
\* equal: the n newest (ids are handed out in the order of creation)
newest(ids, n) == {i \in ids : Cardinality({j \in ids : j > i}) < n}

\* {$sort: {hotScore: -1}}, {$skip}, {$limit} over documents of equal score:
\* any n of them may come first
anyOf(ids, n) ==
    {R \in SUBSET ids : Cardinality(R) = IF Cardinality(ids) < n THEN Cardinality(ids) ELSE n}

Listing(op, sort, cat, tgs, res) ==
    [op |-> op, sort |-> sort, category |-> cat, tags |-> tgs, at |-> now, result |-> res]

\* Confession.getHotConfessions(limit, skip): $match takes the base predicate only
getHotConfessions(n) == anyOf({i \in DOMAIN docs : eligible(docs[i], now)}, n)

\* GET /api/confessions: sort=hot returns getHotConfessions(limit, skip),
\* the other sorts run Confession.find(query)
ListConfessions(sort, cat, tgs, n) ==
    /\ \E res \in IF sort = "hot" THEN getHotConfessions(n)
                   ELSE {newest({i \in DOMAIN docs :
                                   eligible(docs[i], now) /\ filtered(docs[i], cat, tgs)}, n)} :
          listed' = Listing("list", sort, cat, tgs, res)
    /\ UNCHANGED <<now, users, confs, nextConf, votes, casts, req, lastOk, comVars, docs, auxVars>>

\* GET /api/confessions/hot: Confession.getHotConfessions(limit)
HotConfessions(n) ==
    /\ \E res \in getHotConfessions(n) : listed' = Listing("hot", "hot", "none", {}, res)
    /\ UNCHANGED <<now, users, confs, nextConf, votes, casts, req, lastOk, comVars, docs, auxVars>>

\* Confession.searchConfessions(query, {category, tags, limit})
SearchConfessions(cat, tgs, n) ==
    /\ listed' = Listing("search", "latest", cat, tgs,
                         newest({i \in DOMAIN docs :
                                   eligible(docs[i], now) /\ filtered(docs[i], cat, tgs)}, n))
    /\ UNCHANGED <<now, users, confs, nextConf, votes, casts, req, lastOk, comVars, docs, auxVars>>

\* GET /api/confessions/featured: find({featured: true, status, $or}).limit(10)
FeaturedConfessions ==
    /\ listed' = Listing("featured", "latest", "none", {},
                         {i \in DOMAIN docs : docs[i].featured /\ eligible(docs[i], now)})
    /\ UNCHANGED <<now, users, confs, nextConf, votes, casts, req, lastOk, comVars, docs, auxVars>>

\* ---------------------------------------------------------------- hotScore
\* ten times totalVotes * 2 + commentsCount * 3 + viewsCount * 0.1
weight(h) == 20 * h.votes + 30 * h.comments + h.views

\* the square of Math.pow(ageInHours + 2, 1.5)
ageFactorFalling(a) == (MaxAge + 2 - a) * (MaxAge + 2 - a) * (MaxAge + 2 - a)

ageFactor(a) == (a + 2) * (a + 2) * (a + 2)

\* virtual hotScore, in hundredths: Math.round(score * 100), the largest k
\* with k - 1/2 <= 10 * weight / (age + 2)^1.5 (both sides squared)
hotScore(h) ==
    LET w == weight(h)
        atLeast(k) == k = 0 \/ (2 * k - 1) * (2 * k - 1) * ageFactor(h.age) <= 400 * w * w
    IN CHOOSE k \in 0..(4 * w + 1) : atLeast(k) /\ ~atLeast(k + 1)

\* the order of {$sort: {hotScore: -1}} on the unrounded quotient of
\* getHotConfessions: g's score is at most h's
scoreAtMost(g, h) ==
    weight(g) * weight(g) * ageFactor(h.age) <= weight(h) * weight(h) * ageFactor(g.age)

Rescored(h) == [h EXCEPT !.score = hotScore(h)]

\* a vote is counted on the confession
HotVote ==
    /\ hot.votes < MaxCount
    /\ hot' = Rescored([hot EXCEPT !.votes = @ + 1])
    /\ UNCHANGED <<now, users, confs, nextConf, votes, casts, req, lastOk, comVars, listVars, routed, liked, visits, served,
                   sideVars>>

\* a comment is counted on the confession
HotComment ==
    /\ hot.comments < MaxCount
    /\ hot' = Rescored([hot EXCEPT !.comments = @ + 1])
    /\ UNCHANGED <<now, users, confs, nextConf, votes, casts, req, lastOk, comVars, listVars, routed, liked, visits, served,
                   sideVars>>

\* the confession is viewed
HotView ==
    /\ hot.views < MaxCount
    /\ hot' = Rescored([hot EXCEPT !.views = @ + 1])
    /\ UNCHANGED <<now, users, confs, nextConf, votes, casts, req, lastOk, comVars, listVars, routed, liked, visits, served,
                   sideVars>>

\* an hour passes
HotHour ==
    /\ hot.age < MaxAge
    /\ hot' = Rescored([hot EXCEPT !.age = @ + 1])
    /\ UNCHANGED <<now, users, confs, nextConf, votes, casts, req, lastOk, comVars, listVars, routed, liked, visits, served,
                   sideVars>>

\* ----------------------------------------------------------------- routing
\* the routes of a router in the order they are registered
Route(m, p, h) == [method |-> m, path |-> p, handler |-> h]

usersRoutes ==
    << Route("GET", <<>>, "list"),
       Route("GET", <<":id">>, "detail"),
       Route("GET", <<":id", "confessions">>, "confessions"),
       Route("GET", <<":id", "comments">>, "comments"),
       Route("GET", <<":id", "votes">>, "votes"),
       Route("POST", <<":id", "follow">>, "follow"),
       Route("GET", <<"leaderboard">>, "leaderboard"),
       Route("GET", <<"search">>, "search") >>

confessionsRoutes ==
    << Route("GET", <<>>, "list"),
       Route("GET", <<":id">>, "detail"),
       Route("POST", <<>>, "create"),
       Route("POST", <<":id", "vote">>, "vote"),
       Route("GET", <<":id", "comments">>, "comments"),
       Route("POST", <<":id", "share">>, "share"),
       Route("POST", <<":id", "report">>, "report"),
       Route("GET", <<"hot">>, "hot"),
       Route("GET", <<"featured">>, "featured") >>

Routers == {"users", "confessions"}

routesOf(router) == IF router = "users" THEN usersRoutes ELSE confessionsRoutes

\* the segments of a request path below the router's mount point
Segments == {"652f1c", "hot", "featured", "leaderboard", "search", "vote", "comments"}

Paths == {<<>>} \cup {<<a>> : a \in Segments} \cup {<<a, b>> : a, b \in Segments}

\* a route path matches segment by segment; a parameter matches any segment
matches(pattern, path) ==
    /\ Len(pattern) = Len(path)
    /\ \A i \in 1..Len(path) : pattern[i] = ":id" \/ pattern[i] = path[i]

\* express.Router: the first registered route of the method that matches
\* handles the request; server.js's notFound takes what no route matched
dispatch(routes, m, path) ==
    LET hits == {i \in 1..Len(routes) : routes[i].method = m /\ matches(routes[i].path, path)}
    IN IF hits = {} THEN "notFound"
       ELSE routes[CHOOSE i \in hits : \A j \in hits : i <= j].handler

\* a request reaches the router mounted at /api/users or /api/confessions
Dispatch(router, m, path) ==
    /\ routed' = [router |-> router, method |-> m, path |-> path,
                  handler |-> dispatch(routesOf(router), m, path)]
    /\ UNCHANGED <<now, users, confs, nextConf, votes, casts, req, lastOk, comVars, listVars,
                   hot, liked, visits, served, sideVars>>

\* ------------------------------------------------- comment likes / dislikes
\* this.updateOne({$inc: {...}}): the store adds the amount to the stored
\* number; the schema's min: 0 is a validator of save(), which $inc does not run
inc(n, by) == n + by

addLike ==
    /\ liked.likes < MaxLikes
    /\ liked' = [liked EXCEPT !.likes = inc(@, 1)]
    /\ UNCHANGED <<now, users, confs, nextConf, votes, casts, req, lastOk, comVars, listVars,
                   hot, routed, visits, served, sideVars>>

removeLike ==
    /\ liked.likes > -MaxLikes
    /\ liked' = [liked EXCEPT !.likes = inc(@, -1)]
    /\ UNCHANGED <<now, users, confs, nextConf, votes, casts, req, lastOk, comVars, listVars,
                   hot, routed, visits, served, sideVars>>

addDislike ==
    /\ liked.dislikes < MaxLikes
    /\ liked' = [liked EXCEPT !.dislikes = inc(@, 1)]
    /\ UNCHANGED <<now, users, confs, nextConf, votes, casts, req, lastOk, comVars, listVars,
                   hot, routed, visits, served, sideVars>>

removeDislike ==
    /\ liked.dislikes > -MaxLikes
    /\ liked' = [liked EXCEPT !.dislikes = inc(@, -1)]
    /\ UNCHANGED <<now, users, confs, nextConf, votes, casts, req, lastOk, comVars, listVars,
                   hot, routed, visits, served, sideVars>>

\* ------------------------------------------------- detail reads and shares
\* the handler answers: nothing of the loaded document is kept
Answered(v, code) ==
    [v EXCEPT !.pc = "done", !.status = code, !.at = 0, !.docViews = -1, !.docShares = -1]

\* incrementViews: this.updateOne({$inc: {viewsCount: 1}}), applied by the
\* store to the stored number, whatever the loaded document v holds
incrementViewsLoaded(cf, v) == v.docViews + 1

incrementViews(cf, v) == cf.viewsCount + 1

\* incrementShares: this.updateOne({$inc: {sharesCount: 1}})
incrementShares(cf, v) == cf.sharesCount + 1

\* GET /api/confessions/:id: Confession.findById and the three checks, in the
\* order of the handler: 404, 403 (status), 410 (isExpired)
DetailFind(d, c) ==
    /\ visits[d].pc \in {"idle", "done"}
    /\ served.started < MaxVisits
    /\ LET cf == confs[c]
           kind == precondition(cf, now)
           v == [NoVisit EXCEPT !.kind = "read", !.conf = c, !.at = now]
       IN visits' = [visits EXCEPT ![d] =
            IF kind # "ok" THEN Answered(v, statusOf(kind))
            ELSE [v EXCEPT !.pc = "incViews", !.docViews = cf.viewsCount,
                           !.docShares = cf.sharesCount]]
    /\ served' = [served EXCEPT !.started = @ + 1]
    /\ UNCHANGED <<now, users, confs, nextConf, votes, casts, req, lastOk, comVars, listVars,
                   hot, routed, liked, sideVars>>

\* await confession.incrementViews(), then the response (Vote.findOne only
\* reads); an update of a document deleted meanwhile matches nothing
IncrementViews(d) ==
    /\ visits[d].pc = "incViews"
    /\ LET cf == confs[visits[d].conf]
       IN confs' = [confs EXCEPT ![visits[d].conf] =
                      IF cf.live THEN [cf EXCEPT !.viewsCount = incrementViews(cf, visits[d])]
                      ELSE cf]
    /\ visits' = [visits EXCEPT ![d] = Answered(@, 200)]
    /\ served' = [served EXCEPT !.reads = @ + 1]
    /\ UNCHANGED <<now, users, nextConf, votes, casts, req, lastOk, comVars, listVars,
                   hot, routed, liked, sideVars>>

\* POST /api/confessions/:id/share: Confession.findById, 404 when absent; no
\* check of the status or of the expiry
ShareFind(d, c) ==
    /\ visits[d].pc \in {"idle", "done"}
    /\ served.started < MaxVisits
    /\ LET cf == confs[c]
           v == [NoVisit EXCEPT !.kind = "share", !.conf = c, !.at = now]
       IN visits' = [visits EXCEPT ![d] =
            IF ~cf.live THEN Answered(v, 404)
            ELSE [v EXCEPT !.pc = "incShares", !.docViews = cf.viewsCount,
                           !.docShares = cf.sharesCount]]
    /\ served' = [served EXCEPT !.started = @ + 1]
    /\ UNCHANGED <<now, users, confs, nextConf, votes, casts, req, lastOk, comVars, listVars,
                   hot, routed, liked, sideVars>>

\* await confession.incrementShares(), then the response
IncrementShares(d) ==
    /\ visits[d].pc = "incShares"
    /\ LET cf == confs[visits[d].conf]
       IN confs' = [confs EXCEPT ![visits[d].conf] =
                      IF cf.live THEN [cf EXCEPT !.sharesCount = incrementShares(cf, visits[d])]
                      ELSE cf]
    /\ visits' = [visits EXCEPT ![d] = Answered(@, 200)]
    /\ served' = [served EXCEPT !.shares = @ + 1]
    /\ UNCHANGED <<now, users, nextConf, votes, casts, req, lastOk, comVars, listVars,
                   hot, routed, liked, sideVars>>

\* ------------------------------------------------------ user administration
\* userSchema.role: u1 is an admin, u2 an ordinary user
roleOf(u) == IF u = "u1" THEN "admin" ELSE "user"

\* router.use(auth), authorize('admin'): 401 without a user, 403 when the
\* user is not active or has no admin role, 0 when the request goes on
adminGate(a) ==
    IF ~users[a].live THEN 401
    ELSE IF users[a].status # "active" THEN 403
    ELSE IF roleOf(a) # "admin" THEN 403
    ELSE 0

\* ghost: the request op of a was answered with code
Logged(a, op, code) == [n |-> adminLog.n + 1, by |-> a, op |-> op, code |-> code]

\* PUT /api/admin/users/:id/status by a on u with body status s
UpdateUserStatus(a, u, s) ==
    /\ adminLog.n < MaxAdminOps
    /\ LET code == IF adminGate(a) # 0 THEN adminGate(a)
                   ELSE IF s \notin UserStatus THEN 400
                   ELSE IF u = a THEN 400
                   ELSE IF ~users[u].live THEN 404
                   ELSE IF roleOf(u) = "admin" /\ roleOf(a) # "admin" THEN 403
                   ELSE 200
       IN /\ users' = IF code = 200 THEN [users EXCEPT ![u] = [@ EXCEPT !.status = s]]
                      ELSE users
          /\ adminLog' = Logged(a, "status", code)
    /\ UNCHANGED <<now, confs, nextConf, votes, casts, req, lastOk, comVars, listVars,
                   hot, routed, liked, visits, served, login, front>>

\* POST /api/admin/batch by a, type 'users': User.deleteMany({_id: {$in: ids}})
\* or User.updateMany({_id: {$in: ids}}, {$set: {status}}), which runs no
\* validator of the schema
BatchUsers(a, action, ids) ==
    /\ adminLog.n < MaxAdminOps
    /\ ids # {}
    /\ LET code == IF adminGate(a) # 0 THEN adminGate(a)
                   ELSE IF action \notin BatchActions THEN 400
                   ELSE 200
       IN /\ users' = IF code # 200 THEN users
                      ELSE [u \in Users |->
                              IF u \in ids /\ users[u].live
                              THEN IF action = "delete" THEN NoUser
                                   ELSE [users[u] EXCEPT !.status = BatchStatusOf(action)]
                              ELSE users[u]]
          /\ adminLog' = Logged(a, "batch", code)
    /\ UNCHANGED <<now, confs, nextConf, votes, casts, req, lastOk, comVars, listVars,
                   hot, routed, liked, visits, served, login, front>>

\* -------------------------------------------------------------------- login
\* lockUntil: Date.now() + 2 * 60 * 60 * 1000
LockHours == 2

\* if (this.loginAttempts + 1 >= 5 && !this.isLocked)
MaxLoginAttempts == 5

\* virtual isLocked: !!(this.lockUntil && this.lockUntil > Date.now())
isLockedNever(lockUntil, t) == FALSE

isLocked(lockUntil, t) == lockUntil # -1 /\ lockUntil > t

\* incLoginAttempts on the loaded document, at the hour t: the conditions read
\* the loaded fields, the update is applied to the stored ones
incLoginAttempts(l, t) ==
    IF l.docLockUntil # -1 /\ l.docLockUntil < t
    THEN [l EXCEPT !.lockUntil = -1, !.loginAttempts = 1]
    ELSE [l EXCEPT !.loginAttempts = @ + 1,
                   !.lockUntil = IF l.docAttempts + 1 >= MaxLoginAttempts
                                     /\ ~isLocked(l.docLockUntil, t)
                                  THEN t + LockHours ELSE @]

\* resetLoginAttempts: $unset of loginAttempts and lockUntil, which read back
\* as their defaults
resetLoginAttempts(l) == [l EXCEPT !.loginAttempts = 0, !.lockUntil = -1]

\* the response of the login handler
LoginAnswer(l, code) == [l EXCEPT !.pc = "done", !.status = code, !.docAttempts = -1,
                                  !.docLockUntil = -1]

\* POST /api/auth/login: User.findByEmailOrUsername(identifier), then 401
\* for no user, 423 for a locked account, 403 for one that is not active
LoginFind(id, pw) ==
    /\ login.pc \in {"idle", "done"}
    /\ LET l == [login EXCEPT !.id = id, !.password = pw, !.status = 0]
       IN login' =
            IF id \notin Users \/ ~users[id].live THEN LoginAnswer(l, 401)
            ELSE IF isLocked(l.lockUntil, l.hour) THEN LoginAnswer(l, 423)
            ELSE IF users[id].status # "active" THEN LoginAnswer(l, 403)
            ELSE [l EXCEPT !.pc = "password", !.docAttempts = l.loginAttempts,
                           !.docLockUntil = l.lockUntil]
    /\ UNCHANGED <<now, users, confs, nextConf, votes, casts, req, lastOk, comVars, listVars,
                   hot, routed, liked, visits, served, adminLog, front>>

\* user.matchPassword(password); on a mismatch incLoginAttempts() and 401,
\* else resetLoginAttempts() if (user.loginAttempts > 0), updateLastLogin, 200
LoginPassword ==
    /\ login.pc = "password"
    /\ login' =
         IF login.password # "right"
         THEN [LoginAnswer(incLoginAttempts(login, login.hour), 401) EXCEPT
                  !.streak = IF @ <= MaxLoginAttempts THEN @ + 1 ELSE @]
         ELSE [LoginAnswer(IF login.docAttempts > 0 THEN resetLoginAttempts(login) ELSE login,
                           200) EXCEPT !.streak = 0]
    /\ UNCHANGED <<now, users, confs, nextConf, votes, casts, req, lastOk, comVars, listVars,
                   hot, routed, liked, visits, served, adminLog, front>>

\* an hour passes
LoginTick ==
    /\ login.hour < MaxHours
    /\ login' = [login EXCEPT !.hour = @ + 1]
    /\ UNCHANGED <<now, users, confs, nextConf, votes, casts, req, lastOk, comVars, listVars,
                   hot, routed, liked, visits, served, adminLog, front>>

\* --------------------------------------------------------- front-end store
\* if (confession.userVote) { heavenVotes-- or hellVotes-- }
revokeNothing(cf) == cf

revoke(cf) ==
    IF cf.userVote = "none" THEN cf
    ELSE IF cf.userVote = "heaven" THEN [cf EXCEPT !.heavenVotes = @ - 1]
    ELSE [cf EXCEPT !.hellVotes = @ - 1]

\* confession.userVote = voteType; heavenVotes++ or hellVotes++
cast(cf, t) ==
    IF t = "heaven" THEN [cf EXCEPT !.userVote = t, !.accepted = t, !.heavenVotes = @ + 1]
    ELSE [cf EXCEPT !.userVote = t, !.accepted = t, !.hellVotes = @ + 1]

\* vote(confessionId, voteType), called by the click on a vote button
vote(i, t) ==
    /\ LET cf == front.confessions[i]
       IN front' =
            IF ~cf.present THEN [front EXCEPT !.call = <<i, t>>]
            ELSE IF cf.userVote = t THEN [front EXCEPT !.call = <<i, t>>, !.modal = "already"]
            ELSE [front EXCEPT !.call = <<i, t>>, !.modal = "voted",
                               !.confessions[i] = cast(revoke(cf), t)]
    /\ UNCHANGED <<now, users, confs, nextConf, votes, casts, req, lastOk, comVars, listVars,
                   hot, routed, liked, visits, served, adminLog, login>>

\* submitConfession(): an empty or too long text is refused, else the new
\* confession is put in front with no vote
submitConfession(valid) ==
    /\ ~front.confessions[3].present
    /\ front' = IF ~valid THEN [front EXCEPT !.call = <<0, "none">>, !.modal = "refused"]
                ELSE [front EXCEPT !.call = <<0, "none">>, !.modal = "submitted",
                                   !.confessions[3] = frontConfession(3, TRUE)]
    /\ UNCHANGED <<now, users, confs, nextConf, votes, casts, req, lastOk, comVars, listVars,
                   hot, routed, liked, visits, served, adminLog, login>>

\* closeModal(), by a click or by showModal's timer
closeModal ==
    /\ front.modal # "none"
    /\ front' = [front EXCEPT !.call = <<0, "none">>, !.modal = "none"]
    /\ UNCHANGED <<now, users, confs, nextConf, votes, casts, req, lastOk, comVars, listVars,
                   hot, routed, liked, visits, served, adminLog, login>>

\* --------------------------------------------------------- specifications
CastStep(r) ==
    \/ \E limited \in BOOLEAN : Authenticate(r, limited)
    \/ FindConfession(r)
    \/ FindVote(r)
    \/ DeleteVote(r)
    \/ SaveVote(r)
    \/ CreateVote(r)
    \/ HookFind(r)
    \/ CountHeaven(r)
    \/ CountHell(r)
    \/ HookSave(r)
    \/ IncStats(r)

\* requests race: every await of a castVote is a point where any other
\* request or operation may run (the clock stands still meanwhile)
Next ==
    \/ \E r \in Reqs, u \in Users, c \in ConfIds, t \in BodyTypes :
          casts < MaxRacing /\ CastVoteStart(r, u, c, t)
    \/ \E r \in Reqs : CastStep(r)
    \/ \E u \in Users, anon \in BOOLEAN : CreateConfession(u, anon)
    \/ \E c \in ConfIds, s \in ModerateStatus : Moderate(c, s)
    \/ \E a \in BatchActions, ids \in SUBSET ConfIds : BatchConfessions(a, ids)
    \/ \E u \in Users : DeleteAccount(u)

Spec == Init /\ [][Next]_vars

\* one operation at a time: an operation starts only when no castVote is in
\* flight; the clock and the store's TTL monitor run on their own
NextSeq ==
    \/ \E r \in Reqs, u \in Users, c \in ConfIds, t \in BodyTypes :
          Quiescent /\ casts < MaxCasts /\ CastVoteStart(r, u, c, t)
    \/ \E r \in Reqs : CastStep(r)
    \/ \E u \in Users, anon \in BOOLEAN : Quiescent /\ CreateConfession(u, anon)
    \/ \E c \in ConfIds, s \in ModerateStatus : Quiescent /\ Moderate(c, s)
    \/ \E a \in BatchActions, ids \in SUBSET ConfIds : Quiescent /\ BatchConfessions(a, ids)
    \/ \E u \in Users : Quiescent /\ DeleteAccount(u)
    \/ \E c \in ConfIds : TTLExpire(c)
    \/ Tick

SpecSeq == Init /\ [][NextSeq]_vars

\* one castVote at a time, over a store whose operations may reject
NextFault ==
    \/ \E r \in Reqs, u \in Users, c \in ConfIds, t \in BodyTypes :
          Quiescent /\ casts < MaxCasts /\ CastVoteStart(r, u, c, t)
    \/ \E r \in Reqs : CastStep(r)
    \/ \E r \in Reqs : StoreRejects(r)
    \/ \E u \in Users, anon \in BOOLEAN : Quiescent /\ CreateConfession(u, anon)

SpecFault == Init /\ [][NextFault]_vars

\* the reconciliation methods applied to a seeded database: confessions are
\* created with counters of their own, votes and comments beside them
seedVotes(f) ==
    {newVote(IF u = "u1" THEN 1 ELSE 2, u, 1, f[u]) : u \in {w \in Users : f[w] # "none"}}

\* the comment i may be absent, or present as a top-level comment or as a
\* reply to an earlier one, approved or hidden, with a repliesCount of its own
seedComments(i) ==
    {{}} \cup {{[id |-> i, confession |-> 1, parentComment |-> p, status |-> s,
                 author |-> "u1", repliesCount |-> n]} :
                   p \in 0..(i - 1), s \in {"approved", "hidden"}, n \in 0..1}

InitRecon ==
    /\ now = 0
    /\ users = [u \in Users |-> [live |-> TRUE, status |-> "active", votesCount |-> 0]]
    /\ \E h \in 0..Cardinality(Users), l \in 0..Cardinality(Users), n \in 0..MaxComments :
          confs = [c \in ConfIds |->
                     [live |-> TRUE, status |-> "approved", heaven |-> h, hell |-> l,
                      commentsCount |-> n, viewsCount |-> 0, sharesCount |-> 0,
                      expiresAt |-> ExpiryPeriods, author |-> "u1"]]
    /\ nextConf = 2
    /\ \E f \in [Users -> VoteTypes \cup {"none"}] : votes = seedVotes(f)
    /\ casts = 0
    /\ req = [r \in Reqs |-> IdleReq]
    /\ lastOk = [u \in Users |-> [c \in ConfIds |-> NoCast]]
    /\ \E a \in seedComments(1), b \in seedComments(2) : comments = a \cup b
    /\ nextComment = MaxComments
    /\ last = NoLast
    /\ docs = <<>>
    /\ listed = NoListing
    /\ AuxInit

NextRecon ==
    \/ \E c \in ConfIds : UpdateVoteCount(c)
    \/ \E c \in ConfIds : UpdateCommentCount(c)
    \/ \E p \in 1..MaxComments : UpdateRepliesCount(p)

SpecRecon == InitRecon /\ [][NextRecon]_vars

\* the Comment model and the operations that write comments or delete
\* confessions, one at a time
NextCom ==
    \/ \E u \in Users, anon \in BOOLEAN : CreateConfession(u, anon)
    \/ \E c \in ConfIds, p \in 0..MaxComments, u \in Users, s \in {"approved", "pending"} :
          SaveComment(c, p, u, s)
    \/ \E i \in 1..MaxComments : DeleteComment(i)
    \/ \E i \in 1..MaxComments, s \in {"approved", "hidden"} : ModerateComment(i, s)
    \/ \E a \in {"delete", "approve", "hide"}, ids \in SUBSET {k.id : k \in comments} :
          BatchComments(a, ids)
    \/ \E ids \in SUBSET ConfIds : BatchConfessions("delete", ids)
    \/ \E c \in ConfIds : DeleteConfession(c)
    \/ \E u \in Users : DeleteAccount(u)

SpecCom == Init /\ [][NextCom]_vars

\* the listing queries applied to a collection of confessions of every
\* status, expiry, category and tag set, at any instant
InitList ==
    /\ now \in 0..1
    /\ users = [u \in Users |-> [live |-> TRUE, status |-> "active", votesCount |-> 0]]
    /\ confs = [c \in ConfIds |-> NoConf]
    /\ nextConf = 1
    /\ votes = {}
    /\ casts = 0
    /\ req = [r \in Reqs |-> IdleReq]
    /\ lastOk = [u \in Users |-> [c \in ConfIds |-> NoCast]]
    /\ comments = {}
    /\ nextComment = 1
    /\ last = NoLast
    /\ docs \in [DocIds -> [status : {"approved", "hidden"}, expiresAt : -1..1,
                             category : Categories, tags : SUBSET Tags,
                             featured : BOOLEAN]]
    /\ listed = NoListing
    /\ AuxInit

NextList ==
    \/ \E sort \in Sorts, cat \in Categories \cup {"none"}, tgs \in SUBSET Tags, n \in Limits :
          ListConfessions(sort, cat, tgs, n)
    \/ \E n \in Limits : HotConfessions(n)
    \/ \E cat \in Categories \cup {"none"}, tgs \in SUBSET Tags, n \in Limits :
          SearchConfessions(cat, tgs, n)
    \/ FeaturedConfessions

SpecList == InitList /\ [][NextList]_vars

\* the hotScore of one confession as its counters and its age grow
NextHot == HotVote \/ HotComment \/ HotView \/ HotHour

SpecHot == Init /\ [][NextHot]_vars

\* requests dispatched by the two public routers
NextRoute ==
    \E router \in Routers, m \in {"GET", "POST"}, path \in Paths : Dispatch(router, m, path)

SpecRoute == Init /\ [][NextRoute]_vars

\* the like and dislike calls on one comment, in any order
NextLikes == addLike \/ removeLike \/ addDislike \/ removeDislike

SpecLikes == Init /\ [][NextLikes]_vars

\* detail reads, shares, one voter's castVotes and new comments race on a
\* confession that was created by the handler or is stored with expiresAt
\* null (the schema's default, kept by a write that runs no pre('save'))
storedNeverExpiring == [NoConf EXCEPT !.live = TRUE]

InitViews ==
    /\ now = 0
    /\ users = [u \in Users |-> [live |-> TRUE, status |-> "active", votesCount |-> 0]]
    /\ \/ confs = [c \in ConfIds |-> NoConf] /\ nextConf = 1
       \/ confs = [c \in ConfIds |-> storedNeverExpiring] /\ nextConf = 2
    /\ votes = {}
    /\ casts = 0
    /\ req = [r \in Reqs |-> IdleReq]
    /\ lastOk = [u \in Users |-> [c \in ConfIds |-> NoCast]]
    /\ comments = {}
    /\ nextComment = 1
    /\ last = NoLast
    /\ docs = <<>>
    /\ listed = NoListing
    /\ AuxInit

NextViews ==
    \/ \E c \in ConfIds, t \in VoteTypes : casts < MaxRacing /\ CastVoteStart("r1", "u1", c, t)
    \/ CastStep("r1")
    \/ \E d \in Visitors, c \in ConfIds : DetailFind(d, c)
    \/ \E d \in Visitors : IncrementViews(d)
    \/ \E d \in Visitors, c \in ConfIds : ShareFind(d, c)
    \/ \E d \in Visitors : IncrementShares(d)
    \/ CreateConfession("u1", TRUE)
    \/ \E c \in ConfIds : comments = {} /\ SaveComment(c, 0, "u1", "approved")
    \/ \E c \in ConfIds : UpdateCommentCount(c)
    \/ \E c \in ConfIds : TTLExpire(c)
    \/ Tick

SpecViews == InitViews /\ [][NextViews]_vars

\* the admin routes that write users, called by an admin and by a user
NextAdmin ==
    \/ \E a, u \in Users, s \in UserStatus \cup {"approved"} : UpdateUserStatus(a, u, s)
    \/ \E a \in Users, action \in BatchActions \cup {"ban"}, ids \in SUBSET Users :
          BatchUsers(a, action, ids)

SpecAdmin == Init /\ [][NextAdmin]_vars

\* logins to the account u1 and to no account, one at a time, as the hours pass
NextLogin ==
    \/ \E id \in {"u1", "nobody"}, pw \in {"right", "wrong"} : LoginFind(id, pw)
    \/ LoginPassword
    \/ LoginTick

SpecLogin == Init /\ [][NextLogin]_vars

\* the visitor's clicks in the front end
NextFront ==
    \/ \E i \in FrontIds, t \in VoteTypes : vote(i, t)
    \/ \E valid \in BOOLEAN : submitConfession(valid)
    \/ closeModal

SpecFront == Init /\ [][NextFront]_vars

\* ------------------------------------------------------------------ claims
countersMatch(c) ==
    /\ confs[c].heaven = countDocuments(votes, c, "heaven")
    /\ confs[c].hell = countDocuments(votes, c, "hell")

\* C1: in every reachable state, however castVote requests interleave (double
\* submits of one user included), the ledger holds at most one Vote record
\* per (user, confession) pair.
AtMostOneVotePerPair ==
    \A u \in Users, c \in ConfIds : Cardinality(votesOf(votes, u, c)) <= 1

\* a double submit raced: one insert was refused by the index, the other's
\* record stands alone
DoubleSubmitRefused ==
    \E r \in Reqs :
        /\ req[r].pc = "done" /\ req[r].error = "duplicate"
        /\ Cardinality(votesOf(votes, req[r].user, req[r].conf)) = 1

\* C2: whenever no castVote is in flight, every confession's votes.heaven and
\* votes.hell equal the numbers of Vote records of each type that reference it.
CountersMatchLedger ==
    Quiescent => \A c \in ConfIds : confs[c].live => countersMatch(c)

\* C3: once every racing castVote (and with it every reconciliation it
\* triggered) has finished, the counters equal the counts of the ledger; no
\* account was deleted, so castVote is the only writer of the ledger.
RacingReconciliationsConverge ==
    (Quiescent /\ \A u \in Users : users[u].live)
        => \A c \in ConfIds : confs[c].live => countersMatch(c)

\* C4: a castVote whose insert hit the uniqueness constraint still answers
\* with success and a stated action (removed or changed).
ConflictRecovered ==
    \A r \in Reqs :
        (req[r].pc = "done" /\ req[r].error = "duplicate")
            => (req[r].status = 200 /\ req[r].action \in {"removed", "changed"})

\* the step on which request r sends its response
Returns(r) == req[r].pc # "done" /\ req'[r].pc = "done"

\* r's response is not one of the rejections that precede the ledger lookup
Passed(rq) ==
    rq.error \notin {"auth", "disabled", "rateLimit", "validation",
                     "notFound", "forbidden", "gone"}

\* C5 as stated: a castVote of type T that passes the checks, the pair's last
\* successful cast having been of type T too, returns action=removed with
\* type null and leaves no Vote record of the pair.
SameTypeTwiceRemoves ==
    [][\A r \in Reqs :
         (/\ Returns(r) /\ Passed(req'[r])
          /\ lastOk[req[r].user][req[r].conf].type = req[r].type)
         => (/\ req'[r].status = 200
             /\ req'[r].action = "removed" /\ req'[r].rtype = "none"
             /\ votesOf(votes', req[r].user, req[r].conf) = {})]_vars

\* C5 amended: the same, when the first of the two casts left a Vote of type T
\* (it returned added or changed).
SameTypeAfterVotedRemoves ==
    [][\A r \in Reqs :
         (/\ Returns(r) /\ Passed(req'[r])
          /\ lastOk[req[r].user][req[r].conf].type = req[r].type
          /\ lastOk[req[r].user][req[r].conf].action \in {"added", "changed"})
         => (/\ req'[r].status = 200
             /\ req'[r].action = "removed" /\ req'[r].rtype = "none"
             /\ votesOf(votes', req[r].user, req[r].conf) = {})]_vars

\* a second cast of the same type has returned removed and the pair has no record
ToggledOff ==
    \E r \in Reqs :
        /\ req[r].pc = "done" /\ req[r].action = "removed"
        /\ lastOk[req[r].user][req[r].conf].action = "removed"
        /\ votesOf(votes, req[r].user, req[r].conf) = {}
        /\ users[req[r].user].votesCount > 0

\* C6: a castVote of type T' that passes the checks, by a user whose Vote on
\* the confession has the other type T, answers changed with type T'; the
\* pair then has exactly one record, the one it had, with type T'.
OppositeTypeChangesInPlace ==
    [][\A r \in Reqs :
         (/\ Returns(r) /\ Passed(req'[r])
          /\ req[r].had \in VoteTypes /\ req[r].had # req[r].type)
         => (/\ req'[r].status = 200
             /\ req'[r].action = "changed" /\ req'[r].rtype = req[r].type
             /\ \E e \in req[r].existing :
                   /\ e.type = req[r].had
                   /\ votesOf(votes', req[r].user, req[r].conf)
                        = {[e EXCEPT !.type = req[r].type]})]_vars

\* a cast has answered changed and the pair's one record carries the new type
VoteChanged ==
    \E r \in Reqs :
        /\ req[r].pc = "done" /\ req[r].action = "changed"
        /\ \E v \in votes :
              /\ votesOf(votes, req[r].user, req[r].conf) = {v}
              /\ v.type = req[r].rtype

othersVotes(vs, u) == {v \in vs : v.user # u}

\* C7: a castVote of type T that passes the checks, by a user with no Vote on
\* the confession, answers added with type T and leaves exactly one record of
\* the pair, of type T; while the call is in flight no record of another user
\* is created, changed or deleted.
FirstVoteAdds ==
    [][\A r \in Reqs :
         /\ InFlight(r) => othersVotes(votes', req[r].user) = othersVotes(votes, req[r].user)
         /\ (Returns(r) /\ Passed(req'[r]) /\ req[r].had = "none")
            => (/\ req'[r].status = 200
                /\ req'[r].action = "added" /\ req'[r].rtype = req[r].type
                /\ \E v \in votes' :
                      /\ votesOf(votes', req[r].user, req[r].conf) = {v}
                      /\ v.type = req[r].type)]_vars

\* a first vote has been added next to a record of another user
VoteAddedBesideAnother ==
    \E r \in Reqs :
        /\ req[r].pc = "done" /\ req[r].action = "added"
        /\ \E v \in votes : v.user = req[r].user /\ v.type = req[r].rtype
        /\ othersVotes(votes, req[r].user) # {}

\* C8: in a serial run, when a castVote returns, the confession's votes.heaven
\* and votes.hell equal the counts of Vote records of each type (so heaven,
\* hell, hell by the only voter gives {1,0}, {0,1}, {0,0}): after every call
\* that succeeds, and after every call at all as long as castVote has been
\* the only writer of the ledger (no account was deleted).
CountersRightAfterCast ==
    [][\A r \in Reqs :
         (/\ Returns(r) /\ confs'[req[r].conf].live
          /\ (req'[r].status = 200 \/ \A u \in Users : users[u].live))
         => (/\ confs'[req[r].conf].heaven = countDocuments(votes', req[r].conf, "heaven")
             /\ confs'[req[r].conf].hell = countDocuments(votes', req[r].conf, "hell"))]_vars

\* the third call of the example: hell cast again by the only voter, counters {0,0}
ExampleThirdCall ==
    \E r \in Reqs :
        /\ req[r].pc = "done" /\ req[r].action = "removed"
        /\ lastOk[req[r].user][req[r].conf] = [type |-> "hell", action |-> "removed"]
        /\ casts = 3 /\ users[req[r].user].votesCount = 1
        /\ votes = {}
        /\ confs[req[r].conf].live
        /\ confs[req[r].conf].heaven = 0 /\ confs[req[r].conf].hell = 0

\* C9: the lookup of the confession answers 404 when it does not exist, else
\* 403 when its status is not approved, else 410 when its expiresAt is in the
\* past, and lets the request through otherwise.
PreconditionsInOrder ==
    [][\A r \in Reqs :
         (req[r].pc = "findConfession" /\ req'[r] # req[r])
         => LET cf == confs[req[r].conf]
                expired == cf.expiresAt # -1 /\ cf.expiresAt < now
            IN /\ ~cf.live => (req'[r].pc = "done" /\ req'[r].status = 404)
               /\ (cf.live /\ cf.status # "approved")
                    => (req'[r].pc = "done" /\ req'[r].status = 403)
               /\ (cf.live /\ cf.status = "approved" /\ expired)
                    => (req'[r].pc = "done" /\ req'[r].status = 410)
               /\ (cf.live /\ cf.status = "approved" /\ ~expired)
                    => req'[r].pc = "findVote"]_vars

\* a vote on a confession that is both hidden or rejected and expired got 403
ForbiddenBeforeGone ==
    \E r \in Reqs :
        /\ req[r].pc = "done" /\ req[r].error = "forbidden" /\ req[r].status = 403
        /\ confs[req[r].conf].live
        /\ confs[req[r].conf].status # "approved"
        /\ isExpired(confs[req[r].conf], now)

\* C10: a castVote answered with a validation or state error (400, 404, 403,
\* 410) has taken only steps that leave the Vote records, the confessions'
\* counters and the users' votesCount as they were.
RejectedCastCommitsNothing ==
    [][\A r \in Reqs :
         /\ (Returns(r) /\ req'[r].error \in {"validation", "notFound", "forbidden", "gone"})
            => req[r].pc \in {"auth", "findConfession"}
         /\ (req'[r] # req[r] /\ req[r].pc \in {"idle", "done", "auth", "findConfession"})
            => (votes' = votes /\ confs' = confs /\ users' = users)]_vars

\* a vote on an expired confession was refused while the ledger was not empty
GoneWithLedger ==
    \E r \in Reqs :
        /\ req[r].pc = "done" /\ req[r].error = "gone"
        /\ votes # {}
        /\ \E u \in Users : users[u].votesCount > 0

\* the action a response states for a change of the ledger
actionOf(w) ==
    CASE w = "created" -> "added"
      [] w = "changed" -> "changed"
      [] w = "deleted" -> "removed"
      [] OTHER -> "none"

\* C11: a castVote that has answered either succeeded with the action that
\* names the change it made to the ledger, or failed having changed no Vote
\* record.
ClearOutcome ==
    \A r \in Reqs :
        req[r].pc = "done"
            => \/ req[r].status = 200 /\ req[r].wrote # "none"
                  /\ req[r].action = actionOf(req[r].wrote)
               \/ req[r].status # 200 /\ req[r].wrote = "none"

\* C12: when the reconciliation of a vote write fails, the failure is logged
\* and nothing else: the Vote records stay as the write left them and the
\* handler goes on to its success response (removed, changed, or, after the
\* user's votesCount update, added).
ReconciliationFailureSwallowed ==
    [][\A r \in Reqs :
         /\ (~req[r].logged /\ req'[r].logged)
            => /\ votes' = votes /\ req'[r].wrote = req[r].wrote
               /\ req[r].branch = "delete"
                    => (req'[r].pc = "done" /\ req'[r].status = 200
                        /\ req'[r].action = "removed")
               /\ req[r].branch = "save"
                    => (req'[r].pc = "done" /\ req'[r].status = 200
                        /\ req'[r].action = "changed")
               /\ req[r].branch = "create" => req'[r].pc = "incStats"
         /\ (req[r].logged /\ req[r].pc = "incStats" /\ req'[r] # req[r])
            => /\ votes' = votes
               /\ \/ req'[r].status = 200 /\ req'[r].action = "added"
                  \/ req'[r].error = "server"]_vars

\* a first vote answered added although its reconciliation had failed: the
\* record is in the ledger and the counter was never raised
AddedThoughHookFailed ==
    \E r \in Reqs :
        /\ req[r].pc = "done" /\ req[r].logged
        /\ req[r].status = 200 /\ req[r].action = "added"
        /\ \E v \in votes : v.user = req[r].user /\ v.confession = req[r].conf
        /\ confs[req[r].conf].live /\ ~countersMatch(req[r].conf)

ReconOps == {"updateVoteCount", "updateCommentCount", "updateRepliesCount"}

\* C13: a reconciliation method (updateVoteCount, updateCommentCount,
\* updateRepliesCount) run a second time right after its first run, nothing
\* having been written in between, leaves every counter at the value the
\* first run gave it.
ReconciliationIdempotent ==
    [][(/\ last'.op \in ReconOps /\ last.op = last'.op /\ last.id = last'.id
        /\ last.runs = 1 /\ last'.runs = 2)
       => (confs' = confs /\ comments' = comments /\ votes' = votes)]_vars

\* a counter that was stale was corrected by the first run and the method
\* has run a second time
CorrectedThenRunAgain ==
    /\ last.op \in ReconOps /\ last.runs = 2 /\ last.changed
    /\ \A c \in ConfIds :
          /\ last.op = "updateVoteCount" => (countersMatch(c) /\ votes # {})
          /\ last.op = "updateCommentCount"
               => (confs[c].commentsCount = countComments(comments, c) /\ comments # {})
    /\ last.op = "updateRepliesCount"
         => \E k \in comments : k.id = last.id /\ k.repliesCount = countReplies(comments, k.id)

\* C14: the step that deletes a confession, whichever operation takes it,
\* leaves no Vote record and no Comment record that references the confession.
DeleteLeavesNoReference ==
    [][\A c \in ConfIds :
         (confs[c].live /\ ~confs'[c].live)
         => (/\ \A v \in votes' : v.confession # c
             /\ \A k \in comments' : k.confession # c)]_vars

\* the step is the call op on the comment i
CallOf(op, i) == last' # last /\ last'.op = op /\ last'.id = i

repliesOf(ks, i) == {k \in ks : k.parentComment = i}

\* C15: deleting a top-level approved comment whose replies are exactly two,
\* both approved, deletes the two replies and leaves the confession's
\* commentsCount 3 lower than it was.
DeleteWithTwoRepliesLowersByThree ==
    [][\A k \in comments :
         (/\ CallOf("deleteComment", k.id)
          /\ k.parentComment = 0 /\ k.status = "approved"
          /\ confs[k.confession].live
          /\ Cardinality(repliesOf(comments, k.id)) = 2
          /\ \A r \in repliesOf(comments, k.id) : r.status = "approved")
         => (/\ repliesOf(comments', k.id) = {}
             /\ confs'[k.confession].commentsCount
                  = confs[k.confession].commentsCount - 3)]_vars

\* C16: between comment operations every confession's commentsCount equals
\* the number of approved Comment records that reference it.
CommentsCountMatches ==
    \A c \in ConfIds : confs[c].live => confs[c].commentsCount = countComments(comments, c)

\* C17: when the save of a new approved Comment completes, the confession's
\* commentsCount counts it and, if it is a reply, so does its parent's
\* repliesCount.
NewCommentCounted ==
    [][\A k \in comments' :
         (CallOf("saveComment", k.id) /\ k.status = "approved")
         => (/\ confs'[k.confession].commentsCount = countComments(comments', k.confession)
             /\ \A p \in comments' :
                   p.id = k.parentComment => p.repliesCount = countReplies(comments', p.id))]_vars

\* C18: between comment operations every comment's repliesCount equals the
\* number of approved Comment records whose parentComment it is.
RepliesCountMatches ==
    \A p \in comments : p.repliesCount = countReplies(comments, p.id)

\* C19: every confession a listing returns (the list under each sort,
\* getHotConfessions, searchConfessions, the featured list) has status
\* approved and an expiresAt that is null or later than the time of the query.
ListedAreEligible ==
    \A i \in listed.result :
        /\ docs[i].status = "approved"
        /\ docs[i].expiresAt = -1 \/ docs[i].expiresAt > listed.at

\* a listing returned a confession and left out one that is hidden or expired
IneligibleLeftOut ==
    /\ listed.op # "none" /\ listed.result # {}
    /\ \E i \in DOMAIN docs :
          /\ i \notin listed.result
          /\ docs[i].status = "approved"
          /\ docs[i].expiresAt # -1 /\ docs[i].expiresAt <= listed.at

\* C20: a list called with a category returns only confessions of that
\* category, under every sort; called with tags, only confessions that carry
\* one of them.
FiltersApplied ==
    listed.op = "list"
        => \A i \in listed.result :
              /\ listed.category # "none" => docs[i].category = listed.category
              /\ listed.tags # {} => docs[i].tags \cap listed.tags # {}

\* C21: with the counts fixed the hotScore does not rise as the confession
\* ages, with the age fixed it does not fall as totalVotes, commentsCount or
\* viewsCount rises, and with all three counts zero it is 0.  The unrounded
\* score of the ranking moves strictly (unless it is 0 and stays 0 with
\* age); the virtual, rounded to hundredths, may stay where it was.
HotScoreMonotonic ==
    [][/\ hot'.age > hot.age
            => /\ hot'.score <= hot.score /\ scoreAtMost(hot', hot)
               /\ weight(hot) > 0 => ~scoreAtMost(hot, hot')
       /\ hot'.age = hot.age
            => /\ hot'.score >= hot.score /\ scoreAtMost(hot, hot')
               /\ ~scoreAtMost(hot', hot)
       /\ (hot'.votes = 0 /\ hot'.comments = 0 /\ hot'.views = 0) => hot'.score = 0]_vars

\* a confession with votes and comments has aged and its score is positive
\* and lower than it was at age 0
AgedScoreLower ==
    /\ hot.age = MaxAge /\ hot.votes > 0 /\ hot.comments > 0 /\ hot.views > 0
    /\ hot.score > 0
    /\ hot.score < hotScore([hot EXCEPT !.age = 0])

\* C22: GET /api/users/leaderboard is handled by the leaderboard handler and
\* GET /api/confessions/hot by the hot-confessions handler.
StaticRoutesReachTheirHandlers ==
    /\ (routed.router = "users" /\ routed.method = "GET" /\ routed.path = <<"leaderboard">>)
          => routed.handler = "leaderboard"
    /\ (routed.router = "confessions" /\ routed.method = "GET" /\ routed.path = <<"hot">>)
          => routed.handler = "hot"

\* C23: a castVote increments the user's stats.votesCount only when it is the
\* user's first ever vote: no cast of that user has succeeded before it.
VotesCountOnlyOnFirstVote ==
    [][\A u \in Users :
          users'[u].votesCount > users[u].votesCount
             => \A c \in ConfIds : lastOk[u][c].action = "none"]_vars

\* C24: the step that deletes a comment leaves no Comment whose parentComment
\* refers to a comment the step deleted, at any depth of the reply tree.
DeleteLeavesNoOrphanReply ==
    [][\A i \in 1..MaxComments :
          CallOf("deleteComment", i)
             => LET gone == {k.id : k \in comments} \ {k.id : k \in comments'}
                IN \A k \in comments' : k.parentComment \notin gone]_vars

\* C25: whatever addLike, removeLike, addDislike and removeDislike calls were
\* made on a comment, its likes and dislikes are both non-negative.
LikesNonNegative == liked.likes >= 0 /\ liked.dislikes >= 0

\* C26: a confession created without an expiresAt gets expiresAt = creation
\* time + 30 days; a confession whose expiresAt is null is never answered 410
\* by castVote or by the detail read, and the listings' filter never leaves
\* it out on expiry grounds.
NullExpiryNeverExpires ==
    /\ [][\A c \in ConfIds :
            (~confs[c].live /\ confs'[c].live) => confs'[c].expiresAt = now + ExpiryPeriods]_vars
    /\ [][\A r \in Reqs :
            (req[r].pc = "findConfession" /\ req'[r].status = 410)
               => confs[req[r].conf].expiresAt # -1]_vars
    /\ [][\A d \in Visitors :
            (visits'[d] # visits[d] /\ visits'[d].status = 410)
               => confs[visits'[d].conf].expiresAt # -1]_vars
    /\ [](\A c \in ConfIds :
            (confs[c].live /\ confs[c].expiresAt = -1)
               => (eligible(confs[c], now) <=> confs[c].status = "approved"))

\* a detail read of a confession stored with expiresAt null passed its checks
\* at the latest instant, when a confession created at 0 has expired, and a
\* vote cast on it before was counted
NullExpiryReadAtTheEnd ==
    \E d \in Visitors :
        /\ visits[d].pc = "incViews" /\ visits[d].at = MaxTime
        /\ confs[visits[d].conf].live /\ confs[visits[d].conf].expiresAt = -1
        /\ confs[visits[d].conf].heaven + confs[visits[d].conf].hell > 0

\* C27: the save of a vote reconciliation changes nothing of the confession
\* but votes.heaven and votes.hell, and while detail reads, shares and
\* reconciliations interleave, viewsCount is the number of detail reads
\* answered 200 and sharesCount the number of shares answered 200.
ViewsAndSharesNotLost ==
    /\ [][\A r \in Reqs :
            (req[r].pc = "count" /\ req'[r].pc # "count")
               => \A c \in ConfIds : [confs'[c] EXCEPT !.heaven = 0, !.hell = 0]
                                        = [confs[c] EXCEPT !.heaven = 0, !.hell = 0]]_vars
    /\ [](\A c \in ConfIds :
            confs[c].live => /\ confs[c].viewsCount = served.reads
                             /\ confs[c].sharesCount = served.shares)

\* a share was answered and a comment counted while a detail read is between
\* its find and its increment and a vote reconciliation is about to save
InterleavedReadsCounted ==
    /\ req["r1"].pc = "count" /\ req["r1"].cntH # -1 /\ req["r1"].cntL # -1
    /\ confs[1].live /\ confs[1].sharesCount = 1 /\ confs[1].commentsCount = 1
    /\ \E d \in Visitors : visits[d].pc = "incViews"

\* C28: whatever admin operations were made, every User record's status is
\* one of active, suspended, banned, and no request changes the status of
\* the admin who issued it.
UserStatusValidAndOwnKept ==
    /\ [](\A u \in Users : users[u].live => users[u].status \in UserStatus)
    /\ [][\A a \in Users :
            (adminLog'.n # adminLog.n /\ adminLog'.by = a)
               => users'[a].status = users[a].status]_vars

FrontVoteConsistent ==
    /\ [](\A i \in FrontIds :
            LET cf == front.confessions[i]
                plus(t) == IF cf.userVote = t THEN 1 ELSE 0
            IN cf.present =>
                 /\ cf.heavenVotes >= initialVotes(i).heavenVotes
                 /\ cf.hellVotes >= initialVotes(i).hellVotes
                 /\ cf.userVote \in {"none", cf.accepted}
                 /\ cf.heavenVotes = initialVotes(i).heavenVotes + plus("heaven")
                 /\ cf.hellVotes = initialVotes(i).hellVotes + plus("hell"))
    /\ [][\A i \in FrontIds, t \in VoteTypes :
            (front'.call = <<i, t>> /\ front.confessions[i].userVote = t)
               => front'.confessions = front.confessions]_vars

\* the visitor switched the vote on a sample confession to hell and clicked
\* hell once more, and voted on the confession they submitted
SwitchedThenRepeated ==
    /\ front.call = <<1, "hell">> /\ front.modal = "already"
    /\ front.confessions[1].userVote = "hell"
    /\ front.confessions[2].userVote = "heaven"
    /\ front.confessions[3].present /\ front.confessions[3].userVote = "hell"

====
